---- MODULE Spec2Model ----
(***************************************************************************)
(* Model of scripts/get-release-version.js: getVersion and the functions   *)
(* it drives (channel validation against the npm registry, the git tag     *)
(* store and the GitHub release host; the four version calculators; the    *)
(* conflict check).                                                        *)
(*                                                                         *)
(* JavaScript strings are modelled as sequences of one-character strings,  *)
(* so that split / replace / parseInt / template literals / regular        *)
(* expressions and the semver library calls are computed character by      *)
(* character.  Each execSync call is one step of the state machine; its    *)
(* output (or its failure) is the step's input.                            *)
(***************************************************************************)
EXTENDS Integers, Sequences, FiniteSets, TLC

(***************************************************************************)
(* Characters and JavaScript string primitives                             *)
(***************************************************************************)

Digits == <<"0", "1", "2", "3", "4", "5", "6", "7", "8", "9">>

\* The characters the model's strings are made of, in UTF-16 code-unit order
\* (the order JavaScript's < on strings uses).
Alphabet ==
    <<"\n", "+", "-", ".">> \o Digits \o
    <<"N", "a", "b", "d", "e", "f", "g", "h", "i", "l", "n", "p", "r", "t",
      "v", "w", "y">>

DigitSet == {Digits[i] : i \in 1..10}
LetterSet == {Alphabet[i] : i \in 15..Len(Alphabet)}
DigitValOf == [c \in DigitSet |-> (CHOOSE i \in 1..10 : Digits[i] = c) - 1]
OrdOf == [c \in {Alphabet[i] : i \in 1..Len(Alphabet)} |->
             CHOOSE i \in 1..Len(Alphabet) : Alphabet[i] = c]

IsDigit(c) == c \in DigitSet

DigitVal(c) == DigitValOf[c]

IsLetter(c) == c \in LetterSet

Ord(c) == OrdOf[c]

\* /^[0-9]+$/ : one or more digits and nothing else
AllDigits(s) == Len(s) > 0 /\ \A i \in 1..Len(s) : IsDigit(s[i])

\* s.startsWith(p)
StartsWith(s, p) == Len(s) >= Len(p) /\ SubSeq(s, 1, Len(p)) = p

\* s.substring(n)  (0-based n)
Drop(s, n) == SubSeq(s, n + 1, Len(s))

\* s.indexOf(p) from position i on, 1-based; 0 when p does not occur
RECURSIVE IndexFrom(_, _, _)
IndexFrom(s, p, i) ==
    IF i + Len(p) - 1 > Len(s) THEN 0
    ELSE IF SubSeq(s, i, i + Len(p) - 1) = p THEN i
    ELSE IndexFrom(s, p, i + 1)

IndexOf(s, p) == IndexFrom(s, p, 1)

\* s.split(c) for a one-character separator c: always at least one piece
RECURSIVE Split(_, _)
Split(s, c) ==
    LET i == IndexOf(s, <<c>>)
    IN  IF i = 0 THEN <<s>>
        ELSE <<SubSeq(s, 1, i - 1)>> \o Split(Drop(s, i), c)

\* pieces.join(c)
RECURSIVE Join(_, _)
Join(pieces, c) ==
    IF pieces = <<>> THEN <<>>
    ELSE IF Len(pieces) = 1 THEN pieces[1]
    ELSE pieces[1] \o <<c>> \o Join(Tail(pieces), c)

\* s.trim() (the only white space in Alphabet is the line feed)
RECURSIVE Trim(_)
Trim(s) ==
    IF s = <<>> THEN s
    ELSE IF s[1] = "\n" THEN Trim(Tail(s))
    ELSE IF s[Len(s)] = "\n" THEN Trim(SubSeq(s, 1, Len(s) - 1))
    ELSE s

\* The value of a digit string
RECURSIVE DigitsToNat(_)
DigitsToNat(s) ==
    IF s = <<>> THEN 0
    ELSE 10 * DigitsToNat(SubSeq(s, 1, Len(s) - 1)) + DigitVal(s[Len(s)])

\* The longest prefix of s made of digits
RECURSIVE DigitPrefix(_)
DigitPrefix(s) ==
    IF s = <<>> \/ ~IsDigit(s[1]) THEN <<>>
    ELSE <<s[1]>> \o DigitPrefix(Tail(s))

\* NaN, the one non-number parseInt returns
NaN == -1

\* parseInt(s): the value of the leading digits, NaN when there are none
\* (no string of the model starts with white space, a sign or "0x")
ParseInt(s) == IF DigitPrefix(s) = <<>> THEN NaN ELSE DigitsToNat(DigitPrefix(s))

\* `${n}` for a non-negative integer n
RECURSIVE NatToStr(_)
NatToStr(n) ==
    IF n < 10 THEN <<Digits[n + 1]>>
    ELSE NatToStr(n \div 10) \o <<Digits[(n % 10) + 1]>>

\* `${x}` where x is a number or NaN; NaN + 1 is NaN
NumToStr(x) == IF x = NaN THEN <<"N", "a", "N">> ELSE NatToStr(x)

PlusOne(x) == IF x = NaN THEN NaN ELSE x + 1

\* `v${s}`
WithV(s) == <<"v">> \o s

\* s.replace(/^v/, '')
StripV(s) == IF StartsWith(s, <<"v">>) THEN Tail(s) ELSE s

(***************************************************************************)
(* The semver library, as far as getLatestTag uses it (strict parsing)     *)
(***************************************************************************)

\* [0-9A-Za-z-]
IsIdChar(c) == IsDigit(c) \/ IsLetter(c) \/ c = "-"

\* NUMERICIDENTIFIER: 0|[1-9]\d*
IsNumericId(x) == AllDigits(x) /\ (Len(x) = 1 \/ x[1] # "0")

\* PRERELEASEIDENTIFIER: a numeric identifier, or [0-9A-Za-z-]+ with a non-digit
IsPrereleaseId(x) ==
    /\ Len(x) > 0
    /\ \A i \in 1..Len(x) : IsIdChar(x[i])
    /\ AllDigits(x) => IsNumericId(x)

\* BUILDIDENTIFIER: [0-9A-Za-z-]+
IsBuildId(x) == Len(x) > 0 /\ \A i \in 1..Len(x) : IsIdChar(x[i])

\* The pieces the FULL regular expression captures from a trimmed string:
\* v? MAIN (- PRERELEASE)? (+ BUILD)?
SemverPieces(s) ==
    LET t     == StripV(Trim(s))
        plus  == IndexOf(t, <<"+">>)
        core  == IF plus = 0 THEN t ELSE SubSeq(t, 1, plus - 1)
        dash  == IndexOf(core, <<"-">>)
    IN  [main     |-> Split(IF dash = 0 THEN core ELSE SubSeq(core, 1, dash - 1), "."),
         hasPre   |-> dash # 0,
         pre      |-> IF dash = 0 THEN <<>> ELSE Split(Drop(core, dash), "."),
         hasBuild |-> plus # 0,
         build    |-> IF plus = 0 THEN <<>> ELSE Split(Drop(t, plus), ".")]

\* semver.valid(version) is not null
SemverValid(s) ==
    LET p == SemverPieces(s)
    IN  /\ Len(p.main) = 3
        /\ \A i \in 1..3 : IsNumericId(p.main[i])
        /\ p.hasPre => \A i \in 1..Len(p.pre) : IsPrereleaseId(p.pre[i])
        /\ p.hasBuild => \A i \in 1..Len(p.build) : IsBuildId(p.build[i])

\* JavaScript's a < b on strings: lexicographic on code units
RECURSIVE StrLess(_, _)
StrLess(a, b) ==
    IF b = <<>> THEN FALSE
    ELSE IF a = <<>> THEN TRUE
    ELSE IF a[1] # b[1] THEN Ord(a[1]) < Ord(b[1])
    ELSE StrLess(Tail(a), Tail(b))

NumCmp(x, y) == IF x < y THEN -1 ELSE IF x > y THEN 1 ELSE 0

\* compareIdentifiers: numbers numerically, a number below any other
\* identifier, the others as strings
CompareIdentifiers(a, b) ==
    IF AllDigits(a) /\ AllDigits(b) THEN NumCmp(DigitsToNat(a), DigitsToNat(b))
    ELSE IF a = b THEN 0
    ELSE IF AllDigits(a) THEN -1
    ELSE IF AllDigits(b) THEN 1
    ELSE IF StrLess(a, b) THEN -1 ELSE 1

\* SemVer.compareMain
CompareMain(a, b) ==
    LET d1 == NumCmp(DigitsToNat(a[1]), DigitsToNat(b[1]))
        d2 == NumCmp(DigitsToNat(a[2]), DigitsToNat(b[2]))
        d3 == NumCmp(DigitsToNat(a[3]), DigitsToNat(b[3]))
    IN  IF d1 # 0 THEN d1 ELSE IF d2 # 0 THEN d2 ELSE d3

\* SemVer.comparePre: a version without prerelease is above one with; then
\* identifier by identifier, the shorter list below when it is a prefix
RECURSIVE ComparePreFrom(_, _, _)
ComparePreFrom(a, b, i) ==
    IF i > Len(a) /\ i > Len(b) THEN 0
    ELSE IF i > Len(b) THEN 1
    ELSE IF i > Len(a) THEN -1
    ELSE IF a[i] = b[i] THEN ComparePreFrom(a, b, i + 1)
    ELSE CompareIdentifiers(a[i], b[i])

ComparePre(a, b) ==
    IF a # <<>> /\ b = <<>> THEN -1
    ELSE IF a = <<>> /\ b # <<>> THEN 1
    ELSE IF a = <<>> /\ b = <<>> THEN 0
    ELSE ComparePreFrom(a, b, 1)

\* semver.compare(a, b) for valid a, b: build metadata is ignored
SemverCompare(a, b) ==
    LET pa == SemverPieces(a)
        pb == SemverPieces(b)
        m  == CompareMain(pa.main, pb.main)
    IN  IF m # 0 THEN m ELSE ComparePre(pa.pre, pb.pre)

\* semver.rcompare mistaken for semver.compare: the sort ascends (C1 must
\* notice)
SemverRcompare_Ascending(a, b) == SemverCompare(a, b)

\* semver.rcompare(a, b)
SemverRcompare(a, b) == SemverCompare(b, a)

\* Array.prototype.sort((a, b) => semver.rcompare(a, b)): a stable sort,
\* computed by insertion
RECURSIVE InsertSorted(_, _)
InsertSorted(x, sorted) ==
    IF sorted = <<>> THEN <<x>>
    ELSE IF SemverRcompare(x, sorted[1]) < 0 THEN <<x>> \o sorted
    ELSE <<sorted[1]>> \o InsertSorted(x, Tail(sorted))

RECURSIVE SortRcompare(_)
SortRcompare(xs) ==
    IF xs = <<>> THEN <<>>
    ELSE InsertSorted(xs[Len(xs)], SortRcompare(SubSeq(xs, 1, Len(xs) - 1)))

(***************************************************************************)
(* git tag -l '<pattern>'                                                  *)
(***************************************************************************)

\* A pattern is a sequence of literal characters, "*" (any run of
\* characters) and "[0-9]" (exactly one digit).
RECURSIVE GlobMatch(_, _)
GlobMatch(p, s) ==
    IF p = <<>> THEN s = <<>>
    ELSE IF p[1] = "*"
         THEN GlobMatch(Tail(p), s) \/ (s # <<>> /\ GlobMatch(p, Tail(s)))
    ELSE IF s = <<>> THEN FALSE
    ELSE IF p[1] = "[0-9]" THEN IsDigit(s[1]) /\ GlobMatch(Tail(p), Tail(s))
    ELSE p[1] = s[1] /\ GlobMatch(Tail(p), Tail(s))

\* The orders in which a set of tags can be listed
Listings(tags) ==
    {l \in [1..Cardinality(tags) -> tags] :
        \A i, j \in 1..Cardinality(tags) : i # j => l[i] # l[j]}

\* What the command can print: every matching tag of the store, one per
\* line, in some order
GitTagLists(tags, pattern) ==
    LET hits == {t \in tags : GlobMatch(pattern, t)}
    IN  IF hits = {} THEN {<<>>}
        ELSE {Join(l, "\n") \o <<"\n">> : l \in Listings(hits)}

(***************************************************************************)
(* String constants of the script                                          *)
(***************************************************************************)

S_nightly == <<"n", "i", "g", "h", "t", "l", "y">>
S_preview == <<"p", "r", "e", "v", "i", "e", "w">>
S_stable  == <<"s", "t", "a", "b", "l", "e">>
S_latest  == <<"l", "a", "t", "e", "s", "t">>
S_patch   == <<"p", "a", "t", "c", "h">>

\* 'v*-nightly*', 'v*-preview*', 'v[0-9].[0-9].[0-9]'
NightlyPattern == <<"v", "*", "-">> \o S_nightly \o <<"*">>
PreviewPattern == <<"v", "*", "-">> \o S_preview \o <<"*">>
StablePattern  == <<"v", "[0-9]", ".", "[0-9]", ".", "[0-9]">>

\* The names of the two format checks of validateVersion
FormatXYZ        == <<"X", ".", "Y", ".", "Z">>
FormatXYZPreview == FormatXYZ \o <<"-">> \o S_preview \o <<".", "N">>

S_stable_version_override ==
    S_stable \o <<"_", "v", "e", "r", "s", "i", "o", "n", "_",
                  "o", "v", "e", "r", "r", "i", "d", "e">>
S_preview_version_override ==
    S_preview \o <<"_", "v", "e", "r", "s", "i", "o", "n", "_",
                   "o", "v", "e", "r", "r", "i", "d", "e">>

(***************************************************************************)
(* Pure parts of the script                                                *)
(***************************************************************************)

\* The tags taken in the order the command lists them, never sorted (C13
\* must notice)
LatestTagOf_FirstListed(out) ==
    LET nonEmpty(l) == l # <<>>
        tags     == SelectSeq(Split(Trim(out), "\n"), nonEmpty)
        stripped == [i \in 1..Len(tags) |-> StripV(tags[i])]
        versions == SelectSeq(stripped, SemverValid)
    IN  IF tags = <<>> THEN <<>>
        ELSE IF versions = <<>> THEN <<>>
        ELSE WithV(versions[1])

\* getLatestTag, from the output of git tag -l: the lines, without the empty
\* ones; each without its leading v; the valid ones sorted by rcompare; the
\* first, with the v restored.  '' when nothing is left.
LatestTagOf(out) ==
    LET nonEmpty(l) == l # <<>>
        tags     == SelectSeq(Split(Trim(out), "\n"), nonEmpty)
        stripped == [i \in 1..Len(tags) |-> StripV(tags[i])]
        versions == SortRcompare(SelectSeq(stripped, SemverValid))
    IN  IF tags = <<>> THEN <<>>
        ELSE IF versions = <<>> THEN <<>>
        ELSE WithV(versions[1])

\* The tag compared without its v: no version and no tag agree (C20 must
\* notice)
TagsDisagree_Stripped(latestVersion, latestTag) == latestVersion # StripV(latestTag)

\* The comparison left out (C16 must notice)
TagsDisagree_Never(latestVersion, latestTag) == FALSE

\* getAndVerifyTags: `v${latestVersion}` !== latestTag
TagsDisagree(latestVersion, latestTag) == WithV(latestVersion) # latestTag

\* The output of gh never compared with the tag (C2 must notice)
ReleaseNameDiffers_Never(output, tagName) == FALSE

\* verifyGitHubReleaseExists: output !== tagName
ReleaseNameDiffers(output, tagName) == output # tagName

\* The pattern without its closing anchor, /^\d+\.\d+\.\d+/ (C7 must notice)
MatchesXYZ_Unanchored(version) ==
    LET parts == Split(version, ".")
    IN  /\ Len(parts) >= 3
        /\ AllDigits(parts[1])
        /\ AllDigits(parts[2])
        /\ DigitPrefix(parts[3]) # <<>>

\* /^\d+\.\d+\.\d+$/
MatchesXYZ(version) ==
    LET parts == Split(version, ".")
    IN  Len(parts) = 3 /\ \A i \in 1..3 : AllDigits(parts[i])

\* /^\d+\.\d+\.\d+-preview\.\d+$/
MatchesXYZPreview(version) ==
    LET mark == <<"-">> \o S_preview \o <<".">>
        i    == IndexOf(version, mark)
    IN  /\ i # 0
        /\ MatchesXYZ(SubSeq(version, 1, i - 1))
        /\ AllDigits(Drop(version, i + Len(mark) - 1))

\* validateVersion does not throw
ValidateVersion(version, format) ==
    IF format = FormatXYZ THEN MatchesXYZ(version)
    ELSE IF format = FormatXYZPreview THEN MatchesXYZPreview(version)
    ELSE FALSE

\* s.replace(/-<word>.*/, ''): cut at the first "-<word>"
CutAt(s, word) ==
    LET i == IndexOf(s, <<"-">> \o word)
    IN  IF i = 0 THEN s ELSE SubSeq(s, 1, i - 1)

\* parts[i], or undefined (the empty string is falsy like undefined)
Part(parts, i) == IF i <= Len(parts) THEN parts[i] ELSE <<>>

\* The patch number carried over instead of reset to 0 (C8 must notice)
NightlyRelease_KeepsPatch(latestVersion, date, gitShortHash) ==
    LET versionParts == Split(Split(latestVersion, "-")[1], ".")
    IN  versionParts[1] \o <<".">> \o NumToStr(PlusOne(ParseInt(versionParts[2])))
            \o <<".">> \o versionParts[3] \o <<"-">> \o S_nightly
            \o <<".">> \o date \o <<".">> \o gitShortHash

\* getNightlyVersion: `${major}.${nextMinor}.0-nightly.${date}.${gitShortHash}`
NightlyRelease(latestVersion, date, gitShortHash) ==
    LET baseVersion  == Split(latestVersion, "-")[1]
        versionParts == Split(baseVersion, ".")
        major        == versionParts[1]
        minor        == IF Part(versionParts, 2) # <<>>
                        THEN ParseInt(versionParts[2]) ELSE 0
        nextMinor    == PlusOne(minor)
    IN  major \o <<".">> \o NumToStr(nextMinor) \o <<".", "0", "-">> \o S_nightly
              \o <<".">> \o date \o <<".">> \o gitShortHash

\* new Date().toISOString().slice(0, 10).replace(/-/g, '')
DateStamp(iso) ==
    LET notDash(c) == c # "-"
    IN  SelectSeq(SubSeq(iso, 1, 10), notDash)

\* The preview suffix left in place (C9 must notice)
StableRelease_Unstripped(latestPreviewVersion) == latestPreviewVersion

\* getStableVersion without override: latestPreviewVersion.replace(/-preview.*/, '')
StableRelease(latestPreviewVersion) == CutAt(latestPreviewVersion, S_preview)

\* The first preview numbered 1 instead of 0 (C11 must notice)
PreviewRelease_FromOne(latestNightlyVersion) ==
    CutAt(latestNightlyVersion, S_nightly) \o <<"-">> \o S_preview \o <<".", "1">>

\* getPreviewVersion without override
PreviewRelease(latestNightlyVersion) ==
    CutAt(latestNightlyVersion, S_nightly) \o <<"-">> \o S_preview \o <<".", "0">>

\* getPatchVersion, stable: `${major}.${minor}.${patch + 1}`
PatchStableRelease(latestVersion) ==
    LET versionParts == Split(latestVersion, ".")
        major == versionParts[1]
        minor == IF Len(versionParts) >= 2 THEN versionParts[2]
                 ELSE <<"u", "n", "d", "e", "f", "i", "n", "e", "d">>
        patch == IF Part(versionParts, 3) # <<>>
                 THEN ParseInt(versionParts[3]) ELSE 0
    IN  major \o <<".">> \o minor \o <<".">> \o NumToStr(PlusOne(patch))

\* getPatchVersion, preview: the first two pieces of latestVersion.split('-')
PatchPreviewParts(latestVersion) ==
    LET pieces == Split(latestVersion, "-")
    IN  [version        |-> pieces[1],
         prereleasePart |-> Part(pieces, 2)]

\* !prereleasePart || !prereleasePart.startsWith('preview.')
PatchPreviewBadFormat(latestVersion) ==
    LET pp == PatchPreviewParts(latestVersion).prereleasePart
    IN  pp = <<>> \/ ~StartsWith(pp, S_preview \o <<".">>)

\* parseInt(prereleasePart.split('.')[1])
PatchPreviewNumber(latestVersion) ==
    LET parts == Split(PatchPreviewParts(latestVersion).prereleasePart, ".")
    IN  IF Len(parts) >= 2 THEN ParseInt(parts[2]) ELSE NaN

\* The preview number not incremented (C12 must notice)
PatchPreviewRelease_SameNumber(latestVersion) ==
    PatchPreviewParts(latestVersion).version \o <<"-">> \o S_preview \o <<".">>
        \o NumToStr(PatchPreviewNumber(latestVersion))

\* `${version}-preview.${previewNumber + 1}`
PatchPreviewRelease(latestVersion) ==
    PatchPreviewParts(latestVersion).version \o <<"-">> \o S_preview \o <<".">>
        \o NumToStr(PlusOne(PatchPreviewNumber(latestVersion)))

\* JSON.parse of the output of npm view ... versions --json: an array of
\* strings, one string, or a SyntaxError
JsonParse(text) ==
    LET n == Len(text)
        unquote(q) == SubSeq(q, 2, Len(q) - 1)
        items == Split(SubSeq(text, 2, n - 1), ",")
    IN  IF n >= 2 /\ text[1] = "[" /\ text[n] = "]"
        THEN [kind  |-> "array",
              value |-> IF n = 2 THEN <<>>
                        ELSE [i \in 1..Len(items) |-> unquote(items[i])]]
        ELSE IF n >= 2 /\ text[1] = "\"" /\ text[n] = "\""
        THEN [kind |-> "string", value |-> unquote(text)]
        ELSE [kind |-> "SyntaxError", value |-> <<>>]

\* allVersions.includes(newVersion): membership in an array, containment in
\* a string
Includes(allVersions, newVersion) ==
    IF allVersions.kind = "array"
    THEN \E i \in 1..Len(allVersions.value) : allVersions.value[i] = newVersion
    ELSE IF allVersions.kind = "string"
    THEN newVersion = <<>> \/ IndexOf(allVersions.value, newVersion) # 0
    ELSE FALSE

(***************************************************************************)
(* The inputs: options, the three sources, the clock                       *)
(***************************************************************************)

\* The most tags the tag store holds
MaxTags == 2

V_0_4_1  == <<"0", ".", "4", ".", "1">>
V_0_4_2  == <<"0", ".", "4", ".", "2">>
V_0_10_0 == <<"0", ".", "1", "0", ".", "0">>
V_0_5_0_preview_2  == <<"0", ".", "5", ".", "0", "-">> \o S_preview \o <<".", "2">>
V_0_5_0_preview_10 == <<"0", ".", "5", ".", "0", "-">> \o S_preview \o <<".", "1", "0">>
V_0_6_0_nightly ==
    <<"0", ".", "6", ".", "0", "-">> \o S_nightly
        \o <<".", "2", "0", "2", "5", "0", "9", "1", "0">>
        \o <<".", "a", "3", "1", "8", "3", "0", "a", "3">>

V_0_9_3_nightly ==
    <<"0", ".", "9", ".", "3", "-">> \o S_nightly
        \o <<".", "2", "0", "2", "5", "0", "9", "1", "1">> \o <<".", "b", "2">>

\* The versions a dist-tag of the registry may name
RegistryVersions ==
    {V_0_4_1, V_0_4_2, V_0_10_0, V_0_5_0_preview_2, V_0_5_0_preview_10,
     V_0_6_0_nightly, V_0_9_3_nightly}

\* Further versions a dist-tag may name: a stable version with a two-digit
\* component, and preview versions whose suffix is not a plain number
V_0_0_77 == <<"0", ".", "0", ".", "7", "7">>
V_0_5_0  == <<"0", ".", "5", ".", "0">>
V_0_5_0_preview    == V_0_5_0 \o <<"-">> \o S_preview
V_0_5_0_preview_b  == V_0_5_0_preview \o <<".", "b">>
V_0_5_0_preview_2a == V_0_5_0_preview \o <<".", "2", "a">>

OddVersions ==
    {V_0_0_77, V_0_5_0, V_0_5_0_preview, V_0_5_0_preview_b, V_0_5_0_preview_2a}

\* A tag with build metadata: as a version it has the precedence of
\* 0.5.0-preview.2
T_0_5_0_preview_2_build == WithV(V_0_5_0_preview_2 \o <<"+", "b">>)

\* The tags the tag store may hold
TagUniverse == {WithV(v) : v \in RegistryVersions}

\* A tag store: a set of tags
TagStores == {t \in SUBSET TagUniverse : Cardinality(t) <= MaxTags}

\* The ISO time stamps the clock may show, and the short hashes of HEAD
Clock ==
    {<<"2", "0", "2", "5", "-", "0", "9", "-", "1", "7", "T",
       "0", "0", ":", "0", "0", ":", "0", "0", ".", "0", "0", "0", "Z">>}
ShortHashes == {<<"d", "3", "b", "f", "8", "a", "3", "d">>}

S_beta == <<"b", "e", "t", "a">>
V_1_2_3 == <<"1", ".", "2", ".", "3">>
V_4_5_6 == <<"4", ".", "5", ".", "6">>

\* Values of stable_version_override and preview_version_override
StableOverrides ==
    {V_1_2_3, WithV(V_1_2_3), V_1_2_3 \o <<"-">> \o S_beta, V_0_4_1, <<>>}
PreviewOverrides ==
    {V_4_5_6 \o <<"-">> \o S_preview \o <<".", "0">>,
     V_4_5_6 \o <<"-">> \o S_preview, V_4_5_6}

\* The options objects getVersion is called with (process.argv holds none):
\* a function from the keys present to their string values
Options ==
    {<<>>}
    \cup {("type" :> t) : t \in {<<>>, S_nightly, S_stable, S_preview, S_patch, S_beta}}
    \cup {("type" :> S_stable) @@ ("stable_version_override" :> o) :
              o \in StableOverrides}
    \cup {("type" :> S_preview) @@ ("preview_version_override" :> o) :
              o \in PreviewOverrides}
    \cup {("type" :> S_patch) @@ ("patch-from" :> f) :
              f \in {S_stable, S_preview, S_nightly, <<>>}}
    \cup {("type" :> S_nightly) @@ ("stable_version_override" :> V_1_2_3 \o <<"-">> \o S_beta),
          ("type" :> S_beta) @@ ("patch-from" :> S_stable),
          ("patch-from" :> S_stable)}

\* The stable tags of the test "Semver Sorting Edge Cases"
SemverSortingTags == {WithV(V_0_0_77), WithV(V_0_5_0), WithV(V_0_4_1)}

\* Some repositories with more tags: stable tags of which one has a
\* two-digit component, next to a preview tag; preview tags of which two have
\* the same precedence; three preview tags with one highest; preview tags
\* whose suffix is not a plain number; a nightly tag next to a preview tag
Repositories ==
    {SemverSortingTags \cup {WithV(V_0_5_0_preview_10)},
     {WithV(V_0_5_0_preview_2), T_0_5_0_preview_2_build, WithV(V_0_4_1)},
     {WithV(V_0_5_0_preview_2), WithV(V_0_5_0_preview_10), T_0_5_0_preview_2_build},
     {WithV(V_0_5_0_preview_2a), WithV(V_0_4_1)},
     {WithV(V_0_5_0_preview)},
     {WithV(V_0_5_0_preview_b)},
     {WithV(V_0_6_0_nightly), WithV(V_0_5_0_preview_2)}}

\* The options of the calls made in them
RepositoryOptions ==
    {("type" :> S_nightly), ("type" :> S_stable), ("type" :> S_preview),
     ("type" :> S_stable) @@ ("stable_version_override" :> V_1_2_3 \o <<"-">> \o S_beta),
     ("type" :> S_patch) @@ ("patch-from" :> S_stable),
     ("type" :> S_patch) @@ ("patch-from" :> S_preview)}

\* args.key is truthy: present and not the empty string
Truthy(a, key) == key \in DOMAIN a /\ a[key] # <<>>

(***************************************************************************)
(* execSync: a command either prints something or fails                    *)
(***************************************************************************)

Failed == [ok |-> FALSE, out |-> <<>>]
Printed(text) == [ok |-> TRUE, out |-> text]
Line(text) == text \o <<"\n">>

\* npm view @google/gemini-cli version --tag=<distTag>
NpmViewTagOutcomes ==
    {Printed(Line(v)) : v \in RegistryVersions \cup OddVersions}
    \cup {Printed(<<>>), Failed}

\* git tag -l '<pattern>' against the tag store
GitTagOutcomes(tags, pattern) ==
    {Printed(text) : text \in GitTagLists(tags, pattern)} \cup {Failed}

\* gh release view "<tagName>" --json tagName --jq .tagName
GhReleaseOutcomes(tagName) ==
    {Printed(Line(tagName)), Printed(Line(WithV(V_1_2_3))), Printed(<<>>), Failed}

\* git rev-parse --short HEAD
GitRevParseOutcomes == {Printed(Line(h)) : h \in ShortHashes} \cup {Failed}

\* JSON.stringify of an array of strings, and of one string
Quoted(v) == <<"\"">> \o v \o <<"\"">>
JsonArray(l) == <<"[">> \o Join([i \in 1..Len(l) |-> Quoted(l[i])], ",") \o <<"]">>

\* npm view @google/gemini-cli versions --json prints the array of the
\* published versions, or the one version as a string when there is only one
PublishedLists(newVersion) ==
    {<<V_0_4_1, V_0_5_0_preview_2>>, <<V_0_4_1, newVersion, V_0_5_0_preview_2>>}

NpmViewVersionsOutcomes(newVersion) ==
    {Printed(Line(JsonArray(l))) : l \in PublishedLists(newVersion)}
    \cup {Printed(Line(Quoted(V_0_4_1))), Printed(Line(Quoted(newVersion))),
          Printed(<<>>), Failed}

(***************************************************************************)
(* State                                                                   *)
(***************************************************************************)

VARIABLES
    args,           \* the options of the call
    gitTags,        \* the tag store
    pc,             \* the next step of the call; "returned" or "thrown" at its end
    fn,             \* the calculator the switch of getVersion chose
    stage,          \* which getAndVerifyTags call of the calculator is running
    distTag,        \* getAndVerifyTags: npmDistTag
    pattern,        \* getAndVerifyTags: gitTagPattern
    latestVersion,  \* getAndVerifyTags: latestVersion
    latestTag,      \* getAndVerifyTags: latestTag
    date,           \* getNightlyVersion: date
    versionData,    \* what the calculator returns, as far as computed
    conflicts,      \* validateVersionConflicts: conflicts
    result,         \* what getVersion returned
    error,          \* what getVersion threw
    log             \* every execSync call so far, with its outcome

vars == <<args, gitTags, pc, fn, stage, distTag, pattern, latestVersion,
          latestTag, date, versionData, conflicts, result, error, log>>

NoVersionData == [releaseVersion |-> <<>>, npmTag |-> <<>>, previousReleaseTag |-> <<>>]
NoResult == [releaseTag |-> <<>>, releaseVersion |-> <<>>, npmTag |-> <<>>,
             previousReleaseTag |-> <<>>]
NoError == [message |-> "", values |-> <<>>, cause |-> "", lines |-> <<>>]

Error(message, values) ==
    [message |-> message, values |-> values, cause |-> "", lines |-> <<>>]

Init ==
    /\ args \in Options
    /\ gitTags \in TagStores
    /\ pc = "getVersion"
    /\ fn = ""
    /\ stage = 0
    /\ distTag = <<>>
    /\ pattern = <<>>
    /\ latestVersion = <<>>
    /\ latestTag = <<>>
    /\ date = <<>>
    /\ versionData = NoVersionData
    /\ conflicts = <<>>
    /\ result = NoResult
    /\ error = NoError
    /\ log = <<>>

\* A call in one of the repositories with more tags
InitRepositories ==
    /\ args \in RepositoryOptions
    /\ gitTags \in Repositories
    /\ pc = "getVersion"
    /\ fn = ""
    /\ stage = 0
    /\ distTag = <<>>
    /\ pattern = <<>>
    /\ latestVersion = <<>>
    /\ latestTag = <<>>
    /\ date = <<>>
    /\ versionData = NoVersionData
    /\ conflicts = <<>>
    /\ result = NoResult
    /\ error = NoError
    /\ log = <<>>

(***************************************************************************)
(* The messages of the errors the script throws ($n: the n-th value)       *)
(***************************************************************************)

MsgUnknownType == "Unknown release type: $1"
MsgPatchFrom ==
    "Patch type must be specified with --patch-from=stable or --patch-from=preview"
MsgTagsDisagree ==
    "Discrepancy found! NPM $1 tag ($2) does not match latest git $1 tag ($3)."
MsgReleaseUnverified ==
    "Discrepancy found! Failed to verify GitHub release for $1. Error: $cause"
MsgReleaseMissing ==
    "Discrepancy found! NPM version $1 is missing a corresponding GitHub release."
MsgInvalid == "Invalid $1: $2. Must be in $3 format."
MsgPreviewFormat ==
    "Invalid preview version format: $1. Expected format like \"0.6.0-preview.2\""
MsgPreviewNumber == "Could not parse preview number from: $1"
MsgConflict == "Version conflict! Cannot create $1:\n$lines"
MsgNpmConflict == "NPM registry already has version $1"
MsgGitConflict == "Git tag v$1 already exists"
MsgGhConflict == "GitHub release v$1 already exists"
\* the error of execSync itself, not a message of the script
MsgCommandFailed == "Command failed"

(***************************************************************************)
(* The calculators, between their execSync calls                           *)
(***************************************************************************)

\* A switch whose default branch is the nightly one (C5 must notice)
ReleaseType_DefaultsUnknown(a) ==
    IF Truthy(a, "type") /\ a["type"] \in {S_stable, S_preview, S_patch}
    THEN a["type"] ELSE S_nightly

\* const type = args.type, without the default (C22 must notice)
ReleaseType_NoDefault(a) == IF "type" \in DOMAIN a THEN a["type"] ELSE <<>>

\* const type = args.type || 'nightly'
ReleaseType(a) == IF Truthy(a, "type") THEN a["type"] ELSE S_nightly

KnownTypes == {S_nightly, S_stable, S_preview, S_patch}

\* The calculator the switch calls
Calculator(type) ==
    IF type = S_nightly THEN "getNightlyVersion"
    ELSE IF type = S_stable THEN "getStableVersion"
    ELSE IF type = S_preview THEN "getPreviewVersion"
    ELSE IF type = S_patch THEN "getPatchVersion"
    ELSE ""

\* Only a missing patch-from rejected (C6 must notice)
PatchFromInvalid_OnlyMissing(a) == ~Truthy(a, "patch-from")

\* getPatchVersion: !patchFrom || (patchFrom !== 'stable' && patchFrom !== 'preview')
PatchFromInvalid(a) ==
    \/ ~Truthy(a, "patch-from")
    \/ (a["patch-from"] # S_stable /\ a["patch-from"] # S_preview)

\* getPatchVersion: distTag and pattern
PatchDistTag(a) == IF a["patch-from"] = S_stable THEN S_latest ELSE S_preview

\* The preview pattern used for either selector (C19 must notice)
PatchPattern_Preview(a) == PreviewPattern

PatchPattern(a) == IF PatchDistTag(a) = S_latest THEN StablePattern ELSE PreviewPattern

\* The channel each calculator validates first
FirstDistTag(type, a) ==
    IF type = S_nightly THEN S_nightly
    ELSE IF type = S_stable THEN S_preview
    ELSE IF type = S_preview THEN S_nightly
    ELSE PatchDistTag(a)

FirstPattern(type, a) ==
    IF type = S_nightly THEN NightlyPattern
    ELSE IF type = S_stable THEN PreviewPattern
    ELSE IF type = S_preview THEN NightlyPattern
    ELSE PatchPattern(a)

\* What a calculator does when a getAndVerifyTags call has returned: throw
\* (error), call getAndVerifyTags again (pc getVersionFromNPM), read HEAD
\* (pc gitRevParse) or return its versionData (pc conflictNPM)
Goes(to, e, d, p, vd) ==
    [pc |-> to, error |-> e, distTag |-> d, pattern |-> p, versionData |-> vd]

\* getNightlyVersion, lines 138-143
NightlyStep(lv, lt, vd) == Goes("gitRevParse", NoError, S_nightly, NightlyPattern, vd)

\* The override validated but the preview's base version used all the same
\* (C10 must notice)
StableStep_IgnoresOverride(a, stg, lv, lt, vd) ==
    LET given    == Truthy(a, "stable_version_override")
        override == StripV(a["stable_version_override"])
    IN  IF stg = 1
        THEN IF given /\ ~ValidateVersion(override, FormatXYZ)
             THEN Goes("thrown",
                       Error(MsgInvalid, <<S_stable_version_override, override, FormatXYZ>>),
                       S_preview, PreviewPattern, vd)
             ELSE Goes("getVersionFromNPM", NoError, S_latest, StablePattern,
                       [vd EXCEPT !.releaseVersion = StableRelease(lv)])
        ELSE Goes("conflictNPM", NoError, S_latest, StablePattern,
                  [vd EXCEPT !.npmTag = S_latest, !.previousReleaseTag = lt])

\* getStableVersion: lines 170-182 after the first call, 184-188 after the second
StableStep(a, stg, lv, lt, vd) ==
    LET given    == Truthy(a, "stable_version_override")
        override == StripV(a["stable_version_override"])
    IN  IF stg = 1
        THEN IF given /\ ~ValidateVersion(override, FormatXYZ)
             THEN Goes("thrown",
                       Error(MsgInvalid, <<S_stable_version_override, override, FormatXYZ>>),
                       S_preview, PreviewPattern, vd)
             ELSE Goes("getVersionFromNPM", NoError, S_latest, StablePattern,
                       [vd EXCEPT !.releaseVersion =
                            IF given THEN override ELSE StableRelease(lv)])
        ELSE Goes("conflictNPM", NoError, S_latest, StablePattern,
                  [vd EXCEPT !.npmTag = S_latest, !.previousReleaseTag = lt])

\* getPreviewVersion: lines 196-213 after the first call, 215-219 after the second
PreviewStep(a, stg, lv, lt, vd) ==
    LET given    == Truthy(a, "preview_version_override")
        override == StripV(a["preview_version_override"])
    IN  IF stg = 1
        THEN IF given /\ ~ValidateVersion(override, FormatXYZPreview)
             THEN Goes("thrown",
                       Error(MsgInvalid,
                             <<S_preview_version_override, override, FormatXYZPreview>>),
                       S_nightly, NightlyPattern, vd)
             ELSE Goes("getVersionFromNPM", NoError, S_preview, PreviewPattern,
                       [vd EXCEPT !.releaseVersion =
                            IF given THEN override ELSE PreviewRelease(lv)])
        ELSE Goes("conflictNPM", NoError, S_preview, PreviewPattern,
                  [vd EXCEPT !.npmTag = S_preview, !.previousReleaseTag = lt])

\* getPatchVersion, lines 232-264
PatchStep(a, lv, lt, vd) ==
    LET d == PatchDistTag(a)
        p == PatchPattern(a)
    IN  IF a["patch-from"] = S_stable
        THEN Goes("conflictNPM", NoError, d, p,
                  [releaseVersion |-> PatchStableRelease(lv), npmTag |-> d,
                   previousReleaseTag |-> lt])
        ELSE IF PatchPreviewBadFormat(lv)
        THEN Goes("thrown", Error(MsgPreviewFormat, <<lv>>), d, p, vd)
        ELSE IF PatchPreviewNumber(lv) = NaN
        THEN Goes("thrown",
                  Error(MsgPreviewNumber, <<PatchPreviewParts(lv).prereleasePart>>),
                  d, p, vd)
        ELSE Goes("conflictNPM", NoError, d, p,
                  [releaseVersion |-> PatchPreviewRelease(lv), npmTag |-> d,
                   previousReleaseTag |-> lt])

Calculate(f, a, stg, lv, lt, vd) ==
    IF f = "getNightlyVersion" THEN NightlyStep(lv, lt, vd)
    ELSE IF f = "getStableVersion" THEN StableStep(a, stg, lv, lt, vd)
    ELSE IF f = "getPreviewVersion" THEN PreviewStep(a, stg, lv, lt, vd)
    ELSE PatchStep(a, lv, lt, vd)

\* The tag check left out (C3 must notice)
GitConflict_Skipped(o, newVersion) == <<>>

\* A release-host failure counted as a conflict (C4 must notice)
GhConflict_FailClosed(o, newVersion) ==
    IF ~o.ok \/ Trim(o.out) = WithV(newVersion) THEN <<MsgGhConflict>> ELSE <<>>

\* validateVersionConflicts: what each of the three checks adds to conflicts
NpmConflict(o, newVersion) ==
    IF o.ok /\ Includes(JsonParse(Trim(o.out)), newVersion)
    THEN <<MsgNpmConflict>> ELSE <<>>

GitConflict(o, newVersion) ==
    IF o.ok /\ Trim(o.out) = WithV(newVersion) THEN <<MsgGitConflict>> ELSE <<>>

GhConflict(o, newVersion) ==
    IF o.ok /\ Trim(o.out) = WithV(newVersion) THEN <<MsgGhConflict>> ELSE <<>>

(***************************************************************************)
(* The steps of one call of getVersion                                     *)
(***************************************************************************)

Logged(by, cmd, arg, o) ==
    log' = Append(log, [by |-> by, cmd |-> cmd, arg |-> arg, ok |-> o.ok, out |-> o.out])

\* getVersion up to its first execSync call: the switch, and the check of
\* patch-from at the head of getPatchVersion
GetVersion ==
    /\ pc = "getVersion"
    /\ LET type    == ReleaseType(args)
           unknown == type \notin KnownTypes
           noPatch == type = S_patch /\ PatchFromInvalid(args)
       IN  /\ fn' = Calculator(type)
           /\ pc' = IF unknown \/ noPatch THEN "thrown" ELSE "getVersionFromNPM"
           /\ error' = IF unknown THEN Error(MsgUnknownType, <<type>>)
                       ELSE IF noPatch THEN Error(MsgPatchFrom, <<>>)
                       ELSE error
           /\ stage' = IF unknown \/ noPatch THEN stage ELSE 1
           /\ distTag' = IF unknown \/ noPatch THEN distTag ELSE FirstDistTag(type, args)
           /\ pattern' = IF unknown \/ noPatch THEN pattern ELSE FirstPattern(type, args)
    /\ UNCHANGED <<args, gitTags, latestVersion, latestTag, date, versionData,
                   conflicts, result, log>>

\* getAndVerifyTags, line 121: getVersionFromNPM(npmDistTag)
GetVersionFromNPM ==
    /\ pc = "getVersionFromNPM"
    /\ \E o \in NpmViewTagOutcomes :
        /\ latestVersion' = (IF o.ok THEN Trim(o.out) ELSE <<>>)
        /\ Logged("getVersionFromNPM", "npm view version --tag", distTag, o)
    /\ pc' = "getLatestTag"
    /\ UNCHANGED <<args, gitTags, fn, stage, distTag, pattern, latestTag, date,
                   versionData, conflicts, result, error>>

\* getAndVerifyTags, lines 122-128: getLatestTag(gitTagPattern) and the
\* comparison of its answer with the registry's
GetLatestTag ==
    /\ pc = "getLatestTag"
    /\ \E o \in GitTagOutcomes(gitTags, pattern) :
        LET tag == IF o.ok THEN LatestTagOf(o.out) ELSE <<>>
        IN  /\ latestTag' = tag
            /\ Logged("getLatestTag", "git tag -l", pattern, o)
            /\ pc' = IF TagsDisagree(latestVersion, tag) THEN "thrown"
                     ELSE "verifyGitHubReleaseExists"
            /\ error' = IF TagsDisagree(latestVersion, tag)
                        THEN Error(MsgTagsDisagree, <<distTag, latestVersion, tag>>)
                        ELSE error
    /\ UNCHANGED <<args, gitTags, fn, stage, distTag, pattern, latestVersion, date,
                   versionData, conflicts, result>>

\* getAndVerifyTags, lines 129-130: verifyGitHubReleaseExists(latestTag), and
\* the calculator up to its next execSync call
VerifyGitHubReleaseExists ==
    /\ pc = "verifyGitHubReleaseExists"
    /\ \E o \in GhReleaseOutcomes(latestTag), iso \in Clock :
        LET differs  == o.ok /\ ReleaseNameDiffers(Trim(o.out), latestTag)
            step     == Calculate(fn, args, stage, latestVersion, latestTag, versionData)
        IN  /\ Logged("verifyGitHubReleaseExists", "gh release view", latestTag, o)
            /\ IF ~o.ok \/ differs
               THEN /\ pc' = "thrown"
                    /\ error' = [Error(MsgReleaseUnverified, <<latestTag>>) EXCEPT
                                   !.cause = IF differs THEN MsgReleaseMissing
                                             ELSE MsgCommandFailed]
                    /\ UNCHANGED <<stage, distTag, pattern, date, versionData>>
               ELSE /\ pc' = step.pc
                    /\ error' = step.error
                    /\ stage' = IF step.pc = "getVersionFromNPM" THEN stage + 1 ELSE stage
                    /\ distTag' = step.distTag
                    /\ pattern' = step.pattern
                    /\ versionData' = step.versionData
                    /\ date' = IF step.pc = "gitRevParse" THEN DateStamp(iso) ELSE date
    /\ UNCHANGED <<args, gitTags, fn, latestVersion, latestTag, conflicts, result>>

\* getNightlyVersion, lines 144-149: git rev-parse --short HEAD, whose
\* failure nothing catches
GitRevParse ==
    /\ pc = "gitRevParse"
    /\ \E o \in GitRevParseOutcomes :
        /\ Logged("getNightlyVersion", "git rev-parse --short HEAD", <<>>, o)
        /\ pc' = IF o.ok THEN "conflictNPM" ELSE "thrown"
        /\ error' = IF o.ok THEN error ELSE Error(MsgCommandFailed, <<>>)
        /\ versionData' =
             IF o.ok
             THEN [releaseVersion     |-> NightlyRelease(latestVersion, date, Trim(o.out)),
                   npmTag             |-> S_nightly,
                   previousReleaseTag |-> latestTag]
             ELSE versionData
    /\ UNCHANGED <<args, gitTags, fn, stage, distTag, pattern, latestVersion,
                   latestTag, date, conflicts, result>>

\* validateVersionConflicts, lines 76-88
ConflictNPM ==
    /\ pc = "conflictNPM"
    /\ \E o \in NpmViewVersionsOutcomes(versionData.releaseVersion) :
        /\ Logged("validateVersionConflicts", "npm view versions --json", <<>>, o)
        /\ conflicts' = NpmConflict(o, versionData.releaseVersion)
    /\ pc' = "conflictGit"
    /\ UNCHANGED <<args, gitTags, fn, stage, distTag, pattern, latestVersion,
                   latestTag, date, versionData, result, error>>

\* validateVersionConflicts, lines 90-99
ConflictGit ==
    /\ pc = "conflictGit"
    /\ \E o \in GitTagOutcomes(gitTags, WithV(versionData.releaseVersion)) :
        /\ Logged("validateVersionConflicts", "git tag -l",
                  WithV(versionData.releaseVersion), o)
        /\ conflicts' = conflicts \o GitConflict(o, versionData.releaseVersion)
    /\ pc' = "conflictGitHub"
    /\ UNCHANGED <<args, gitTags, fn, stage, distTag, pattern, latestVersion,
                   latestTag, date, versionData, result, error>>

\* validateVersionConflicts, lines 101-116, and the return of getVersion
ConflictGitHub ==
    /\ pc = "conflictGitHub"
    /\ \E o \in GhReleaseOutcomes(WithV(versionData.releaseVersion)) :
        LET all == conflicts \o GhConflict(o, versionData.releaseVersion)
        IN  /\ Logged("validateVersionConflicts", "gh release view",
                      WithV(versionData.releaseVersion), o)
            /\ conflicts' = all
            /\ pc' = IF all # <<>> THEN "thrown" ELSE "returned"
            /\ error' = IF all # <<>>
                        THEN [Error(MsgConflict, <<versionData.releaseVersion>>)
                                 EXCEPT !.lines = all]
                        ELSE error
            /\ result' = IF all # <<>> THEN result
                         ELSE [releaseTag         |-> WithV(versionData.releaseVersion),
                               releaseVersion     |-> versionData.releaseVersion,
                               npmTag             |-> versionData.npmTag,
                               previousReleaseTag |-> versionData.previousReleaseTag]
    /\ UNCHANGED <<args, gitTags, fn, stage, distTag, pattern, latestVersion,
                   latestTag, date, versionData>>

Next ==
    \/ GetVersion
    \/ GetVersionFromNPM
    \/ GetLatestTag
    \/ VerifyGitHubReleaseExists
    \/ GitRevParse
    \/ ConflictNPM
    \/ ConflictGit
    \/ ConflictGitHub

Spec == Init /\ [][Next]_vars

SpecRepositories == InitRepositories /\ [][Next]_vars

(***************************************************************************)
(* Vocabulary of the properties                                            *)
(***************************************************************************)

Ended == pc \in {"returned", "thrown"}

\* What a source answered to the j-th query: its trimmed output, nothing
\* when the query failed
Answer(j) == IF log[j].ok THEN Trim(log[j].out) ELSE <<>>

\* The j-th query is the registry query of a channel validation, the
\* (j+1)-th its tag-store query
ValidationAt(j) ==
    /\ j + 1 <= Len(log)
    /\ log[j].by = "getVersionFromNPM"
    /\ log[j + 1].by = "getLatestTag"

\* The pattern of a channel
ChannelPattern(c) ==
    IF c = S_nightly THEN NightlyPattern
    ELSE IF c = S_preview THEN PreviewPattern
    ELSE StablePattern

\* The tags of the store that match the channel's pattern and are valid
\* semantic versions behind their v
Candidates(c) ==
    {t \in gitTags : GlobMatch(ChannelPattern(c), t) /\ SemverValid(Tail(t))}

\* The tag store's highest-precedence tag of a channel, '' when it has none
HighestTag(c) ==
    LET cands == Candidates(c)
    IN  IF cands = {} THEN <<>>
        ELSE CHOOSE t \in cands : \A u \in cands : SemverCompare(Tail(u), Tail(t)) <= 0

\* What the tag store said at the (j+1)-th query about the channel of the j-th
TagStoreSaid(j) == IF log[j + 1].ok THEN HighestTag(log[j].arg) ELSE <<>>

\* C1. Whenever a call has just asked the registry and the tag store about
\* a channel (for every release type, and for each channel it validates) and
\* "v" + the registry's version differs from the tag store's
\* highest-precedence tag matching the channel's pattern, the call has failed
\* with the discrepancy error naming the channel, the registry's value and
\* the tag store's value, and nothing is returned.
C1_TagMismatchFails ==
    \A j \in 1..Len(log) :
        (ValidationAt(j) /\ Len(log) = j + 1) =>
            LET registry == Answer(j)
                tagStore == TagStoreSaid(j)
            IN  WithV(registry) # tagStore
                => /\ pc = "thrown"
                   /\ error = Error(MsgTagsDisagree, <<log[j].arg, registry, tagStore>>)
                   /\ result = NoResult

\* The spec's example, in the second channel of a stable release: the
\* registry says 0.4.1, the tag store v0.4.2
C1_Witness ==
    /\ pc = "thrown"
    /\ fn = "getStableVersion"
    /\ error = Error(MsgTagsDisagree, <<S_latest, V_0_4_1, WithV(V_0_4_2)>>)

\* C2. When the registry and the tag store agree on a channel, the next
\* query asks the release host for the release named exactly that tag; when
\* that query fails, or prints anything but the tag, the call has failed with
\* the "Failed to verify GitHub release for <tag>" discrepancy error and
\* nothing is returned.
C2_ReleaseVerifiedFailClosed ==
    \A j \in 1..Len(log) :
        /\ (ValidationAt(j) /\ Len(log) <= j + 2) =>
             LET tag == WithV(Answer(j))
             IN  tag = TagStoreSaid(j)
                 => IF j + 2 <= Len(log)
                    THEN /\ log[j + 2].cmd = "gh release view"
                         /\ log[j + 2].arg = tag
                    ELSE pc = "verifyGitHubReleaseExists" /\ latestTag = tag
        /\ (log[j].by = "verifyGitHubReleaseExists" /\ Answer(j) # log[j].arg)
           => /\ pc = "thrown"
              /\ error.message = MsgReleaseUnverified
              /\ error.values = <<log[j].arg>>
              /\ result = NoResult
              /\ Len(log) = j

\* The release host answers with another name than the tag asked for
C2_Witness ==
    /\ pc = "thrown"
    /\ error.message = MsgReleaseUnverified
    /\ \E j \in 1..Len(log) :
        /\ log[j].by = "verifyGitHubReleaseExists"
        /\ log[j].ok
        /\ Answer(j) # <<>>
        /\ Answer(j) # log[j].arg

\* The three queries of the conflict check are the last of the log
ConflictChecked ==
    /\ Len(log) >= 3
    /\ log[Len(log)].by = "validateVersionConflicts"
    /\ log[Len(log)].cmd = "gh release view"

\* What each source reported about the computed version v in the conflict
\* check: the registry lists it (the query is the j-th), the tag store holds
\* the tag v<v>, the release host printed the name v<v>
RegistryLists(j, v) ==
    /\ log[j].ok
    /\ \/ log[j].out = Line(Quoted(v))
       \/ \E l \in PublishedLists(v) :
            /\ log[j].out = Line(JsonArray(l))
            /\ \E i \in 1..Len(l) : l[i] = v
TagStoreHolds(j, v) == log[j].ok /\ WithV(v) \in gitTags
ReleaseHostHas(j, v) == log[j].ok /\ log[j].out = Line(WithV(v))

\* The conflict lines of the sources that reported v, in the order of the checks
ReportedLines(v) ==
    LET n == Len(log)
    IN  (IF RegistryLists(n - 2, v) THEN <<MsgNpmConflict>> ELSE <<>>)
        \o (IF TagStoreHolds(n - 1, v) THEN <<MsgGitConflict>> ELSE <<>>)
        \o (IF ReleaseHostHas(n, v) THEN <<MsgGhConflict>> ELSE <<>>)

\* C3. A call returns only after the registry's version list, the tag
\* v<version> and the release v<version> have been queried for the computed
\* version, in that order and as its last three queries; when at least one
\* of the three reported the version present, the call has failed with
\* "Version conflict! Cannot create <version>:" followed by the line of
\* every source that reported it, and nothing is returned; a returned
\* version was reported by none.
C3_ConflictCheckComplete ==
    LET n == Len(log)
        v == versionData.releaseVersion
    IN  /\ pc = "returned" =>
            /\ ConflictChecked
            /\ result.releaseVersion = v
            /\ log[n - 2].cmd = "npm view versions --json"
            /\ log[n - 1].cmd = "git tag -l" /\ log[n - 1].arg = WithV(v)
            /\ log[n].arg = WithV(v)
            /\ ReportedLines(v) = <<>>
        /\ (ConflictChecked /\ ReportedLines(v) # <<>>) =>
            /\ pc = "thrown"
            /\ error = [Error(MsgConflict, <<v>>) EXCEPT !.lines = ReportedLines(v)]
            /\ result = NoResult

\* All three sources report the computed version
C3_Witness ==
    /\ pc = "thrown"
    /\ ConflictChecked
    /\ error.lines = <<MsgNpmConflict, MsgGitConflict, MsgGhConflict>>
    /\ RegistryLists(Len(log) - 2, versionData.releaseVersion)
    /\ TagStoreHolds(Len(log) - 1, versionData.releaseVersion)
    /\ ReleaseHostHas(Len(log), versionData.releaseVersion)

\* C4. In the conflict check a query that fails adds no conflict line, does
\* not fail the call by itself and does not hide the conflicts of the other
\* sources: when the registry lists the computed version and the tag-store
\* and release-host queries both fail, the call fails with the conflict error
\* listing the registry conflict; when all three queries fail, the computed
\* version is returned.
C4_ConflictCheckFailOpen ==
    ConflictChecked =>
        LET n == Len(log)
            v == versionData.releaseVersion
            line == [k \in {n - 2, n - 1, n} |->
                        IF k = n - 2 THEN MsgNpmConflict
                        ELSE IF k = n - 1 THEN MsgGitConflict ELSE MsgGhConflict]
        IN  /\ \A k \in {n - 2, n - 1, n} :
                ~log[k].ok =>
                    /\ \A i \in 1..Len(error.lines) : error.lines[i] # line[k]
                    /\ pc = "thrown" => error.message = MsgConflict
            /\ (RegistryLists(n - 2, v) /\ ~log[n - 1].ok /\ ~log[n].ok) =>
                /\ pc = "thrown"
                /\ error = [Error(MsgConflict, <<v>>) EXCEPT !.lines = <<MsgNpmConflict>>]
            /\ (~log[n - 2].ok /\ ~log[n - 1].ok /\ ~log[n].ok) =>
                /\ pc = "returned"
                /\ result.releaseVersion = v
                /\ result.releaseTag = WithV(v)

\* The registry lists the computed version, the other two queries fail
C4_Witness ==
    /\ ConflictChecked
    /\ pc = "thrown"
    /\ RegistryLists(Len(log) - 2, versionData.releaseVersion)
    /\ ~log[Len(log) - 1].ok
    /\ ~log[Len(log)].ok

\* A release type is requested (present and not empty) that is none of the four
UnknownTypeRequested == Truthy(args, "type") /\ args["type"] \notin KnownTypes

\* C5. When the requested release type is not one of nightly, preview,
\* stable, patch, the call fails with "Unknown release type: <type>" and has
\* issued no query at all.  (No type, or the empty one, is the request for a
\* nightly.)
C5_UnknownTypeFailsFirst ==
    (UnknownTypeRequested /\ pc # "getVersion") =>
        /\ pc = "thrown"
        /\ error = Error(MsgUnknownType, <<args["type"]>>)
        /\ result = NoResult
        /\ log = <<>>

C5_Witness ==
    /\ pc = "thrown"
    /\ error = Error(MsgUnknownType, <<S_beta>>)
    /\ log = <<>>

\* Type patch is requested and patch-from is missing, empty or neither
\* stable nor preview
BadPatchFromRequested ==
    /\ Truthy(args, "type")
    /\ args["type"] = S_patch
    /\ \/ "patch-from" \notin DOMAIN args
       \/ args["patch-from"] \notin {S_stable, S_preview}

\* C6. For type patch with patch-from missing or anything but stable or
\* preview, the call fails with the "Patch type must be specified with
\* --patch-from=stable or --patch-from=preview" error and has issued no query
\* at all.
C6_BadPatchFromFailsFirst ==
    (BadPatchFromRequested /\ pc # "getVersion") =>
        /\ pc = "thrown"
        /\ error = Error(MsgPatchFrom, <<>>)
        /\ result = NoResult
        /\ log = <<>>

\* patch-from names a channel that cannot be patched
C6_Witness ==
    /\ pc = "thrown"
    /\ error = Error(MsgPatchFrom, <<>>)
    /\ "patch-from" \in DOMAIN args
    /\ args["patch-from"] = S_nightly
    /\ log = <<>>

\* X.Y.Z: three runs of digits separated by two dots, and nothing else
IsXYZ(s) ==
    \E i, j \in 1..Len(s) :
        /\ i < j
        /\ s[i] = "." /\ s[j] = "."
        /\ AllDigits(SubSeq(s, 1, i - 1))
        /\ AllDigits(SubSeq(s, i + 1, j - 1))
        /\ AllDigits(SubSeq(s, j + 1, Len(s)))

\* X.Y.Z-preview.N
IsXYZPreviewN(s) ==
    \E i \in 1..Len(s) :
        /\ i + 8 <= Len(s)
        /\ IsXYZ(SubSeq(s, 1, i - 1))
        /\ SubSeq(s, i, i + 8) = <<"-">> \o S_preview \o <<".">>
        /\ AllDigits(SubSeq(s, i + 9, Len(s)))

TypeIs(t) == Truthy(args, "type") /\ args["type"] = t

\* The two overrides: the type each belongs to, its key and name, its format
\* and the channel its calculator validates first
Overrides ==
    {[type |-> S_stable, key |-> "stable_version_override",
      name |-> S_stable_version_override, format |-> FormatXYZ, first |-> S_preview],
     [type |-> S_preview, key |-> "preview_version_override",
      name |-> S_preview_version_override, format |-> FormatXYZPreview,
      first |-> S_nightly]}

WellFormed(o, version) ==
    IF o.format = FormatXYZ THEN IsXYZ(version) ELSE IsXYZPreviewN(version)

\* C7 as stated.  Whenever a manual override is supplied that does not match
\* its required pattern exactly, the call fails with exactly the format error
\* naming the override, whatever the three sources hold.
C7_Original ==
    \A o \in Overrides :
        (TypeIs(o.type) /\ Truthy(args, o.key) /\ ~WellFormed(o, args[o.key]) /\ Ended)
        => /\ pc = "thrown"
           /\ error = Error(MsgInvalid, <<o.name, args[o.key], o.format>>)

\* C7, amended.  Whenever a non-empty manual override is supplied that,
\* with one leading v removed, does not match its required pattern exactly,
\* the call returns nothing and issues no query beyond the three that
\* validate its first channel (preview for stable, nightly for preview); when
\* that channel validates, the call fails with exactly the format error
\* "Invalid <name>: <value>. Must be in <format> format." whose value is the
\* override without the leading v, and otherwise with that channel's
\* discrepancy error.
C7_MalformedOverrideFails ==
    \A o \in Overrides :
        (TypeIs(o.type) /\ Truthy(args, o.key) /\ ~WellFormed(o, StripV(args[o.key])))
        => /\ pc # "returned"
           /\ result = NoResult
           /\ Len(log) <= 3
           /\ \A j \in 1..Len(log) : j <= 2 => log[j].arg \in {o.first, ChannelPattern(o.first)}
           /\ (Len(log) = 3 /\ Answer(3) = log[3].arg)
              => /\ pc = "thrown"
                 /\ error = Error(MsgInvalid, <<o.name, StripV(args[o.key]), o.format>>)
           /\ (pc = "thrown" /\ ~(Len(log) = 3 /\ Answer(3) = log[3].arg))
              => error.message \in {MsgTagsDisagree, MsgReleaseUnverified}

\* The spec's example: stable_version_override = "1.2.3-beta"
C7_Witness ==
    /\ pc = "thrown"
    /\ error = Error(MsgInvalid,
                     <<S_stable_version_override, V_1_2_3 \o <<"-">> \o S_beta, FormatXYZ>>)
    /\ Len(log) = 3

\* The UTC date of an ISO time stamp, YYYYMMDD
UtcDate(iso) == SubSeq(iso, 1, 4) \o SubSeq(iso, 6, 7) \o SubSeq(iso, 9, 10)

\* major.minor.patch of a version, as numbers
MainOf(version) ==
    LET m == SemverPieces(version).main
    IN  [i \in 1..3 |-> DigitsToNat(m[i])]

Dotted(major, minor, patch) ==
    NatToStr(major) \o <<".">> \o NatToStr(minor) \o <<".">> \o NatToStr(patch)

\* C8. A nightly release that returns has validated the nightly channel
\* with latest version M.m.p-nightly.* and returns releaseVersion
\* M.(m+1).0-nightly.<UTC date>.<short hash of HEAD>, npmTag nightly and
\* previousReleaseTag the validated latest nightly tag.
C8_NightlyResult ==
    (pc = "returned" /\ fn = "getNightlyVersion") =>
        LET latest == Answer(1)
            main   == MainOf(latest)
        IN  /\ log[1].arg = S_nightly
            /\ WithV(latest) = HighestTag(S_nightly)
            /\ log[4].cmd = "git rev-parse --short HEAD"
            /\ \E iso \in Clock :
                 result.releaseVersion =
                     Dotted(main[1], main[2] + 1, 0) \o <<"-">> \o S_nightly
                         \o <<".">> \o UtcDate(iso) \o <<".">> \o Answer(4)
            /\ result.npmTag = S_nightly
            /\ result.previousReleaseTag = WithV(latest)
            /\ result.releaseTag = WithV(result.releaseVersion)

\* The spec's example: 0.6.0-nightly.20250910.a31830a3 on 2025-09-17 at
\* d3bf8a3d
C8_Witness ==
    /\ pc = "returned"
    /\ fn = "getNightlyVersion"
    /\ Answer(1) = V_0_6_0_nightly
    /\ result.releaseVersion =
         <<"0", ".", "7", ".", "0", "-">> \o S_nightly
             \o <<".", "2", "0", "2", "5", "0", "9", "1", "7">>
             \o <<".", "d", "3", "b", "f", "8", "a", "3", "d">>
    /\ result.previousReleaseTag = WithV(V_0_6_0_nightly)

\* A stable release without override: no stable_version_override, or an
\* empty one
StableWithoutOverride ==
    /\ fn = "getStableVersion"
    /\ "stable_version_override" \in DOMAIN args => args["stable_version_override"] = <<>>

\* C9. A stable release without override that returns has validated the
\* preview channel and then the latest channel; its releaseVersion is the
\* major.minor.patch of the latest preview version, its npmTag latest and its
\* previousReleaseTag the validated latest stable tag.  Such a release fails
\* only on a channel discrepancy or on a conflict.
C9_StableResult ==
    /\ (pc = "returned" /\ StableWithoutOverride) =>
          LET preview == Answer(1)
              stable  == Answer(4)
              main    == MainOf(preview)
          IN  /\ log[1].arg = S_preview
              /\ WithV(preview) = HighestTag(S_preview)
              /\ log[4].arg = S_latest
              /\ WithV(stable) = HighestTag(S_latest)
              /\ result.releaseVersion = Dotted(main[1], main[2], main[3])
              /\ result.npmTag = S_latest
              /\ result.previousReleaseTag = WithV(stable)
              /\ result.releaseTag = WithV(result.releaseVersion)
    /\ (pc = "thrown" /\ StableWithoutOverride) =>
          error.message \in {MsgTagsDisagree, MsgReleaseUnverified, MsgConflict}

\* The spec's example: preview 0.5.0-preview.2 gives 0.5.0, after the
\* previous stable release 0.4.1
C9_Witness ==
    /\ pc = "returned"
    /\ StableWithoutOverride
    /\ Answer(1) = V_0_5_0_preview_2
    /\ result.releaseVersion = <<"0", ".", "5", ".", "0">>
    /\ result.npmTag = S_latest
    /\ result.previousReleaseTag = WithV(V_0_4_1)

\* A stable release with a stable_version_override
StableWithOverride ==
    /\ TypeIs(S_stable)
    /\ Truthy(args, "stable_version_override")

\* The call failed on the preview channel: on its registry and tag store
\* disagreeing, or on its release
FailedOnPreviewChannel ==
    /\ pc = "thrown"
    /\ log # <<>>
    /\ log[1].arg = S_preview
    /\ \/ error.message = MsgTagsDisagree /\ Len(log) = 2
       \/ error.message = MsgReleaseUnverified /\ Len(log) = 3

\* C10 as stated.  With a well-formed stable_version_override the preview
\* channel is not validated: whatever the sources report for the preview
\* channel, the call ends with releaseVersion = the override, or fails on the
\* latest channel or on a conflict.
C10_Original ==
    (StableWithOverride /\ IsXYZ(args["stable_version_override"]) /\ Ended)
    => /\ ~FailedOnPreviewChannel
       /\ pc = "returned" => result.releaseVersion = args["stable_version_override"]

\* C10, amended.  A stable release validates the preview channel first
\* whether or not an override is supplied.  With a stable_version_override
\* that is X.Y.Z once a leading v is removed, a call in which the preview and
\* the latest channel validate and no conflict is found returns
\* releaseVersion = the override (without the v), npmTag latest and the
\* validated latest stable tag as previousReleaseTag, whichever version the
\* preview channel holds; it fails only on a channel discrepancy or a
\* conflict.
C10_StableOverrideResult ==
    (StableWithOverride /\ IsXYZ(StripV(args["stable_version_override"])))
    => /\ log # <<>> => log[1].by = "getVersionFromNPM" /\ log[1].arg = S_preview
       /\ pc = "returned" =>
            /\ WithV(Answer(1)) = HighestTag(S_preview)
            /\ log[4].arg = S_latest
            /\ WithV(Answer(4)) = HighestTag(S_latest)
            /\ result.releaseVersion = StripV(args["stable_version_override"])
            /\ result.npmTag = S_latest
            /\ result.previousReleaseTag = WithV(Answer(4))
       /\ pc = "thrown" =>
            error.message \in {MsgTagsDisagree, MsgReleaseUnverified, MsgConflict}

\* The override 1.2.3 is returned although the preview channel holds 0.5.0-preview.*
C10_Witness ==
    /\ pc = "returned"
    /\ StableWithOverride
    /\ result.releaseVersion = V_1_2_3
    /\ MainOf(Answer(1)) = <<0, 5, 0>>

\* The j-th, (j+1)-th and (j+2)-th queries validated the channel c: the
\* registry's version, behind a v, is the tag store's highest tag of the
\* channel, and the release host printed that tag
Validated(j, c) ==
    /\ j + 2 <= Len(log)
    /\ log[j].by = "getVersionFromNPM"
    /\ log[j].arg = c
    /\ log[j + 1].by = "getLatestTag"
    /\ log[j + 1].arg = ChannelPattern(c)
    /\ WithV(Answer(j)) = HighestTag(c)
    /\ log[j + 2].by = "verifyGitHubReleaseExists"
    /\ log[j + 2].arg = WithV(Answer(j))
    /\ Answer(j + 2) = WithV(Answer(j))

\* C11. A preview release that returns has validated the nightly channel
\* and then the preview channel; its releaseVersion is the major.minor.patch
\* of the latest nightly version followed by -preview.0 when no override is
\* supplied, and a well-formed preview_version_override when one is; its
\* npmTag is preview and its previousReleaseTag the validated latest preview
\* tag.
C11_PreviewResult ==
    (pc = "returned" /\ fn = "getPreviewVersion") =>
        LET main  == MainOf(Answer(1))
            given == Truthy(args, "preview_version_override")
        IN  /\ Validated(1, S_nightly)
            /\ Validated(4, S_preview)
            /\ ~given => result.releaseVersion =
                             Dotted(main[1], main[2], main[3])
                                 \o <<"-">> \o S_preview \o <<".", "0">>
            /\ given => /\ IsXYZPreviewN(StripV(args["preview_version_override"]))
                        /\ result.releaseVersion = StripV(args["preview_version_override"])
            /\ (given /\ IsXYZPreviewN(args["preview_version_override"]))
                  => result.releaseVersion = args["preview_version_override"]
            /\ result.npmTag = S_preview
            /\ result.previousReleaseTag = WithV(Answer(4))
            /\ result.releaseTag = WithV(result.releaseVersion)

\* The spec's example: nightly 0.6.0-nightly.20250910.a31830a3 gives
\* 0.6.0-preview.0
C11_Witness ==
    /\ pc = "returned"
    /\ fn = "getPreviewVersion"
    /\ Answer(1) = V_0_6_0_nightly
    /\ result.releaseVersion =
         <<"0", ".", "6", ".", "0", "-">> \o S_preview \o <<".", "0">>
    /\ result.npmTag = S_preview
    /\ result.previousReleaseTag = WithV(V_0_5_0_preview_2)

\* The channel a patch release is made from
PatchChannel == IF args["patch-from"] = S_stable THEN S_latest ELSE S_preview

\* The number N of a version X.Y.Z-preview.N
PreviewNumberOf(version) ==
    LET mark == <<"-">> \o S_preview \o <<".">>
    IN  DigitsToNat(Drop(version, IndexOf(version, mark) + Len(mark) - 1))

\* C12. A patch release that returns has validated the selected channel
\* (latest for patch-from=stable, preview for patch-from=preview) and no
\* other; from a latest version X.Y.Z of the stable channel it returns
\* X.Y.(Z+1) with npmTag latest, from a latest version X.Y.Z-preview.N of the
\* preview channel X.Y.Z-preview.(N+1) with npmTag preview; in both cases
\* previousReleaseTag is the validated latest tag of the channel.
C12_PatchResult ==
    (pc = "returned" /\ fn = "getPatchVersion") =>
        LET latest == Answer(1)
            main   == MainOf(latest)
        IN  /\ args["patch-from"] \in {S_stable, S_preview}
            /\ Validated(1, PatchChannel)
            /\ Len(log) = 6
            /\ (PatchChannel = S_latest /\ IsXYZ(latest)) =>
                  result.releaseVersion = Dotted(main[1], main[2], main[3] + 1)
            /\ (PatchChannel = S_preview /\ IsXYZPreviewN(latest)) =>
                  result.releaseVersion =
                      Dotted(main[1], main[2], main[3]) \o <<"-">> \o S_preview
                          \o <<".">> \o NatToStr(PreviewNumberOf(latest) + 1)
            /\ result.npmTag = PatchChannel
            /\ result.previousReleaseTag = WithV(latest)
            /\ result.releaseTag = WithV(result.releaseVersion)

\* The spec's example: stable 0.4.1 is patched to 0.4.2
C12_Witness ==
    /\ pc = "returned"
    /\ fn = "getPatchVersion"
    /\ args["patch-from"] = S_stable
    /\ Answer(1) = V_0_4_1
    /\ result.releaseVersion = V_0_4_2
    /\ result.npmTag = S_latest
    /\ result.previousReleaseTag = WithV(V_0_4_1)

\* The last query was the tag-store adapter's: latestTag is its answer for
\* the pattern log[Len(log)].arg
AdapterAsked == log # <<>> /\ log[Len(log)].by = "getLatestTag"

\* The tags of the store that match a pattern and are valid semantic
\* versions behind their v, and those of them no other precedes
MatchingValid(p) == {t \in gitTags : GlobMatch(p, t) /\ SemverValid(Tail(t))}

Highest(p) ==
    LET cands == MatchingValid(p)
    IN  {t \in cands : \A u \in cands : SemverCompare(Tail(u), Tail(t)) <= 0}

\* The lines of the last query's output
ListedLast == Split(Trim(log[Len(log)].out), "\n")

\* C13 as stated.  The adapter's answer is the matching valid tag of highest
\* precedence whatever the order in which the tag store lists its tags: every
\* other listing of the same store gives the same answer; the answer is
\* empty only if no valid matching tag exists or the query fails.
C13_Original ==
    AdapterAsked =>
        LET last == log[Len(log)]
        IN  /\ latestTag = <<>> <=> (~last.ok \/ MatchingValid(last.arg) = {})
            /\ latestTag # <<>> => latestTag \in Highest(last.arg)
            /\ last.ok => \A text \in GitTagLists(gitTags, last.arg) :
                              LatestTagOf(text) = latestTag

\* C13, amended.  The adapter's answer is a matching valid tag that no other
\* precedes, and it is empty only if no valid matching tag exists or the
\* query fails.  When one tag alone has the highest precedence the answer
\* does not depend on the order of the listing; when several have it (they
\* differ in build metadata only) the answer is the one of them listed first.
C13_HighestPrecedenceTag ==
    AdapterAsked =>
        LET last == log[Len(log)]
            top  == Highest(last.arg)
        IN  /\ latestTag = <<>> <=> (~last.ok \/ MatchingValid(last.arg) = {})
            /\ latestTag # <<>> =>
                  /\ latestTag \in top
                  /\ \E i \in 1..Len(ListedLast) :
                        /\ ListedLast[i] = latestTag
                        /\ \A k \in 1..(i - 1) : ListedLast[k] \notin top
            /\ (last.ok /\ Cardinality(top) = 1) =>
                  \A text \in GitTagLists(gitTags, last.arg) :
                      LatestTagOf(text) = latestTag

\* Two preview tags of the same precedence, 0.5.0-preview.2 and
\* 0.5.0-preview.2+b: the one with build metadata is listed first and is the
\* answer, though the other listing would have given the other
C13_Witness ==
    /\ AdapterAsked
    /\ log[Len(log)].ok
    /\ log[Len(log)].arg = PreviewPattern
    /\ Highest(PreviewPattern) = {WithV(V_0_5_0_preview_2), T_0_5_0_preview_2_build}
    /\ latestTag = T_0_5_0_preview_2_build
    /\ \E text \in GitTagLists(gitTags, PreviewPattern) :
          LatestTagOf(text) = WithV(V_0_5_0_preview_2)

\* The j-th query asked the registry for the dist-tag latest and was told
\* 0.0.77, in the repository of the test "Semver Sorting Edge Cases"
LatestIsOld(j) ==
    /\ SemverSortingTags \subseteq gitTags
    /\ log[j].by = "getVersionFromNPM"
    /\ log[j].arg = S_latest
    /\ Answer(j) = V_0_0_77

\* C14 as stated.  With the registry's latest naming 0.0.77 and the tags
\* v0.0.77, v0.5.0 and v0.4.1 in the store, a patch-from-stable release and a
\* stable release that meet no conflict succeed with previousReleaseTag
\* v0.5.0, and the patch release returns 0.5.1.
C14_Original ==
    \A j \in 1..Len(log) :
        (Ended /\ LatestIsOld(j) /\ error.message # MsgConflict)
        => /\ pc = "returned"
           /\ result.previousReleaseTag = WithV(V_0_5_0)
           /\ fn = "getPatchVersion" =>
                 result.releaseVersion = <<"0", ".", "5", ".", "1">>

\* The messages of the contract: unknown type, missing selector, discrepancy,
\* format violation, preview parse error, conflict list
ContractDiagnostics ==
    {MsgUnknownType, MsgPatchFrom, MsgTagsDisagree, MsgReleaseUnverified,
     MsgInvalid, MsgPreviewFormat, MsgPreviewNumber, MsgConflict}

\* C15 as stated.  Whatever external command fails or prints nothing, an
\* error thrown by getVersion carries one of the messages of the contract;
\* the error of a failed command itself never leaves getVersion.
C15_Original == pc = "thrown" => error.message \in ContractDiagnostics

\* The j-th query did not make the call fail: the tag store's answer is the
\* registry's version behind a v, the release host printed the tag it was
\* asked for, git rev-parse printed a hash (the answers of the registry and
\* of the conflict check never fail a call by themselves)
Passed(j) ==
    IF log[j].by = "getLatestTag"
    THEN (IF log[j].ok THEN LatestTagOf(log[j].out) ELSE <<>>) = WithV(Answer(j - 1))
    ELSE IF log[j].by = "verifyGitHubReleaseExists" THEN Answer(j) = log[j].arg
    ELSE IF log[j].by = "getNightlyVersion" THEN log[j].ok
    ELSE TRUE

\* C16. A failure ends the call and nothing is retried: every query that is
\* followed by another one has passed, so that the release host is not
\* queried after registry and tag store disagree, no second channel is
\* validated after the first has failed and the conflict check runs only
\* after every validation has passed; a call that failed on a discrepancy
\* ends with the query that showed it, one that failed on a format or parse
\* error with the three queries of its first channel; and no channel is
\* asked about twice.
C16_FailureAborts ==
    /\ \A j \in 1..(Len(log) - 1) : Passed(j)
    /\ \A j \in 1..Len(log) :
          log[j].by = "validateVersionConflicts" =>
              /\ j > 3
              /\ \A k \in 1..(j - 1) : Passed(k)
    /\ (pc = "thrown" /\ error.message = MsgTagsDisagree) =>
          log[Len(log)].by = "getLatestTag" /\ ~Passed(Len(log))
    /\ (pc = "thrown" /\ error.message = MsgReleaseUnverified) =>
          log[Len(log)].by = "verifyGitHubReleaseExists" /\ ~Passed(Len(log))
    /\ (pc = "thrown" /\ error.message \in {MsgInvalid, MsgPreviewFormat, MsgPreviewNumber}) =>
          Len(log) = 3 /\ log[3].by = "verifyGitHubReleaseExists"
    /\ \A i, j \in 1..Len(log) :
          (i < j /\ log[i].by = log[j].by
                 /\ log[i].by \in {"getVersionFromNPM", "getLatestTag"})
          => log[i].arg # log[j].arg

\* A stable release whose first channel, preview, shows a mismatch: two
\* queries and no more
C16_Witness ==
    /\ pc = "thrown"
    /\ fn = "getStableVersion"
    /\ error.message = MsgTagsDisagree
    /\ Len(log) = 2
    /\ log[1].arg = S_preview
    /\ Answer(1) = V_0_5_0_preview_2
    /\ WithV(V_0_5_0_preview_10) \in gitTags

\* The prerelease of a version: what follows its first "-"
PrereleaseOf(version) ==
    LET i == IndexOf(version, <<"-">>)
    IN  IF i = 0 THEN <<>> ELSE Drop(version, i)

\* What follows "preview." in a prerelease that starts with it
PreviewSuffixOf(version) == Drop(PrereleaseOf(version), Len(S_preview) + 1)

\* The prerelease starts with "preview." and goes on with digits only
NumberedPreview(version) ==
    /\ StartsWith(PrereleaseOf(version), S_preview \o <<".">>)
    /\ AllDigits(PreviewSuffixOf(version))

\* A patch of the preview channel has validated the channel
PatchingPreview ==
    /\ fn = "getPatchVersion"
    /\ args["patch-from"] = S_preview
    /\ Validated(1, S_preview)

\* C17 as stated.  A patch of the preview channel whose validated latest
\* version has a prerelease that does not start with "preview.", or whose
\* suffix after "preview." is missing or does not consist of digits only,
\* fails with a parse error and returns no version.
C17_Original ==
    (PatchingPreview /\ ~NumberedPreview(Answer(1))) =>
        /\ pc = "thrown"
        /\ error.message \in {MsgPreviewFormat, MsgPreviewNumber}
        /\ result = NoResult

\* The plain vX.Y.Z tags of the store
PlainTags == {t \in gitTags : t[1] = "v" /\ IsXYZ(Tail(t))}

\* At the j-th and (j+1)-th queries the registry and the tag store agree on
\* the stable channel: the registry's latest is X.Y.Z and vX.Y.Z is the
\* plain tag of the store that no other plain tag precedes
StableSourcesAgree(j) ==
    /\ ValidationAt(j)
    /\ log[j].arg = S_latest
    /\ IsXYZ(Answer(j))
    /\ log[j + 1].ok
    /\ WithV(Answer(j)) \in PlainTags
    /\ \A u \in PlainTags : SemverCompare(Tail(u), Answer(j)) <= 0

\* C18 as stated.  When registry and tag store agree on the stable channel,
\* whatever the number of digits of X, Y and Z, the tag store's answer is
\* vX.Y.Z and no discrepancy between registry and tag store is raised.
C18_Original ==
    \A j \in 1..Len(log) :
        (StableSourcesAgree(j) /\ Len(log) = j + 1)
        => /\ latestTag = WithV(Answer(j))
           /\ pc = "verifyGitHubReleaseExists"

\* C19. A patch release asks about the selected channel only: its first
\* three queries are the registry's dist-tag, the tag store's pattern and the
\* release of the selected channel (latest for stable, preview for preview),
\* every later query belongs to the conflict check of the computed version,
\* and HEAD is never read.  The tag it works from is the highest tag among
\* those matching the selected channel's pattern, and its result is computed
\* from the registry's answer for that channel alone.
C19_PatchOneChannel ==
    (fn = "getPatchVersion" /\ pc # "getVersion" /\ ~PatchFromInvalid(args)) =>
        /\ \A j \in 1..Len(log) :
              /\ j = 1 => log[j].by = "getVersionFromNPM" /\ log[j].arg = PatchChannel
              /\ j = 2 => /\ log[j].by = "getLatestTag"
                          /\ log[j].arg = ChannelPattern(PatchChannel)
              /\ j = 3 => /\ log[j].by = "verifyGitHubReleaseExists"
                          /\ log[j].arg = WithV(Answer(1))
              /\ j > 3 => /\ log[j].by = "validateVersionConflicts"
                          /\ log[j].arg \in {<<>>, WithV(versionData.releaseVersion)}
        /\ Len(log) >= 2 => latestTag = TagStoreSaid(1)
        /\ Len(log) > 3 =>
              versionData.releaseVersion =
                  IF PatchChannel = S_latest THEN PatchStableRelease(Answer(1))
                  ELSE PatchPreviewRelease(Answer(1))
        /\ pc = "returned" => result.releaseVersion = versionData.releaseVersion

\* A patch of the preview channel returns 0.5.0-preview.3 in a repository
\* that also holds a nightly tag, about which nothing was asked
C19_Witness ==
    /\ pc = "returned"
    /\ fn = "getPatchVersion"
    /\ args["patch-from"] = S_preview
    /\ WithV(V_0_6_0_nightly) \in gitTags
    /\ Len(log) = 6
    /\ result.releaseVersion = V_0_5_0 \o <<"-">> \o S_preview \o <<".", "3">>

\* C20. A channel for which the registry has no answer (its query failed or
\* printed nothing) never validates: once the tag store has been asked, the
\* call has failed with the discrepancy error naming the channel, the empty
\* registry value and the tag store's value, whatever the tag store holds or
\* answers, and no further query is made.
C20_NoRegistryAnswerFails ==
    \A j \in 1..Len(log) :
        (ValidationAt(j) /\ Answer(j) = <<>>)
        => /\ pc = "thrown"
           /\ Len(log) = j + 1
           /\ error = Error(MsgTagsDisagree, <<log[j].arg, <<>>, TagStoreSaid(j)>>)
           /\ result = NoResult

\* Neither the registry nor the tag store can be reached on the first
\* channel: both values of the discrepancy error are empty
C20_Witness ==
    /\ pc = "thrown"
    /\ Len(log) = 2
    /\ ~log[1].ok
    /\ ~log[2].ok
    /\ error = Error(MsgTagsDisagree, <<log[1].arg, <<>>, <<>> >>)

\* A nightly or a patch release has returned
NightlyOrPatchReturned ==
    /\ pc = "returned"
    /\ fn \in {"getNightlyVersion", "getPatchVersion"}

\* C21 as stated.  The releaseVersion a nightly or a patch release returns
\* has a strictly higher precedence than the validated latest version of the
\* channel it was derived from, the version previousReleaseTag names.
C21_Original ==
    NightlyOrPatchReturned =>
        SemverCompare(result.releaseVersion, StripV(result.previousReleaseTag)) > 0

\* No release type is supplied: the key type is absent or its value empty
NoTypeSupplied == ~Truthy(args, "type")

\* The queries of a nightly release, in their order
NightlyQuery(j) ==
    IF j = 1 THEN log[j].by = "getVersionFromNPM" /\ log[j].arg = S_nightly
    ELSE IF j = 2 THEN log[j].by = "getLatestTag" /\ log[j].arg = NightlyPattern
    ELSE IF j = 3 THEN /\ log[j].by = "verifyGitHubReleaseExists"
                       /\ log[j].arg = WithV(Answer(1))
    ELSE IF j = 4 THEN log[j].cmd = "git rev-parse --short HEAD"
    ELSE /\ log[j].by = "validateVersionConflicts"
         /\ log[j].arg \in {<<>>, WithV(versionData.releaseVersion)}

\* C22. A call without release type is a nightly release: it never fails
\* with the unknown-release-type error, it issues the queries of a nightly
\* release in their order, and it returns what a nightly release returns for
\* the same answers, or fails with an error a nightly release fails with.
C22_DefaultIsNightly ==
    (NoTypeSupplied /\ pc # "getVersion") =>
        /\ fn = Calculator(S_nightly)
        /\ error.message \notin {MsgUnknownType, MsgPatchFrom, MsgInvalid}
        /\ \A j \in 1..Len(log) : NightlyQuery(j)
        /\ Len(log) <= 7
        /\ pc = "returned" =>
              /\ Validated(1, S_nightly)
              /\ \E iso \in Clock :
                    result.releaseVersion =
                        NightlyRelease(Answer(1), DateStamp(iso), Answer(4))
              /\ result.npmTag = S_nightly
              /\ result.previousReleaseTag = WithV(Answer(1))
              /\ result.releaseTag = WithV(result.releaseVersion)
        /\ pc = "thrown" =>
              error.message \in {MsgTagsDisagree, MsgReleaseUnverified,
                                  MsgCommandFailed, MsgConflict}

\* getVersion() without any option returns the nightly release
\* 0.7.0-nightly.20250917.d3bf8a3d
C22_Witness ==
    /\ pc = "returned"
    /\ "type" \notin DOMAIN args
    /\ fn = "getNightlyVersion"
    /\ Len(log) = 7
    /\ result.npmTag = S_nightly
    /\ result.releaseVersion =
         NightlyRelease(V_0_6_0_nightly, DateStamp(CHOOSE iso \in Clock : TRUE),
                        CHOOSE h \in ShortHashes : TRUE)

====
